---------------------------- MODULE Spec2Model ----------------------------
(***************************************************************************)
(* A model of examples/np_semantic_segmentation/feature_extraction.py:     *)
(* the four feature adapters NLTKCollocations, Wikidata, Word2Vec and      *)
(* Wordnet.  Strings are sequences of one-character strings, so that       *)
(* str.split(" "), list.extend(str) and str.replace(" ", "_") are computed *)
(* character by character as Python computes them.                         *)
(***************************************************************************)
EXTENDS Integers, Sequences, FiniteSets, TLC

VARIABLES
    \* NLTKCollocations
    bigram_finder,           \* the corpus words the finder was built from
    likelihood_ration_dict,  \* defaultdict(list): tuple of tokens -> scores
    chi_sq_dict,
    pmi_dict,
    coll_phrase,             \* <<phrase>> of the last get_pmi_score call
    coll_return,             \* <<response_list>> that call returned
    coll_calls,              \* number of get_pmi_score calls made
    \* Word2Vec
    model,                   \* None or the loaded KeyedVectors
    \* (the last call made: the sim_ or the emb_ variables are set, not both)
    sim_phrase,              \* <<noun_phrase>> of a get_similarity_score call
    sim_return,              \* <<value>> when that call returned
    sim_raised,              \* the exception that call ended with, or "none"
    sim_queries,             \* the model.similarity calls that call made
    emb_word,                \* <<word>> of a get_word_embedding call
    emb_return,              \* <<vector>> that call returned
    \* Wikidata
    wd_pc,                   \* "idle", "loop", "returned", "raised"
    wd_candidates,           \* the argument of find_wikidata_existence
    wd_pending,              \* elements of set(candidates) not yet iterated
    wd_remote,               \* what the endpoint answers for each phrase
    wd_queries,              \* the phrases requests.get was called for, in order
    wd_return,               \* <<value>> when the call returned
    \* Wordnet
    wn_pc,                   \* "idle", "loop", "returned"
    wn_candidates,           \* the argument of find_wordnet_existence
    wn_next,                 \* index of the next candidate of the for loop
    wn_db,                   \* the lemma names that have a synset
    wn_queries,              \* the names wordnet.synsets was called for, in order
    wn_return                \* <<value>> when the call returned

collVars == <<bigram_finder, likelihood_ration_dict, chi_sq_dict, pmi_dict,
              coll_phrase, coll_return, coll_calls>>
w2vVars == <<model, sim_phrase, sim_return, sim_raised, sim_queries,
             emb_word, emb_return>>
wdVars == <<wd_pc, wd_candidates, wd_pending, wd_remote, wd_queries, wd_return>>
wnVars == <<wn_pc, wn_candidates, wn_next, wn_db, wn_queries, wn_return>>
vars == <<collVars, w2vVars, wdVars, wnVars>>

---------------------------------------------------------------------------
\* Bounds of the model.

\* longest phrase handed to a scorer
MaxLen == 4
\* number of get_pmi_score calls in one behaviour
MaxCalls == 2
\* longest candidate list handed to an existence checker
MaxCands == 2

---------------------------------------------------------------------------
\* Strings.

Chars == {"a", " "}

Phrases == UNION {[1..n -> Chars] : n \in 0..MaxLen}

\* str.split(" "): cut at every single space, keeping empty tokens.
RECURSIVE Split(_)
Split(s) ==
    IF \A i \in 1..Len(s) : s[i] # " "
    THEN <<s>>
    ELSE LET i == CHOOSE k \in 1..Len(s) :
                      s[k] = " " /\ \A j \in 1..(k - 1) : s[j] # " "
         IN  <<SubSeq(s, 1, i - 1)>> \o Split(SubSeq(s, i + 1, Len(s)))

\* list.extend(str): a string is iterated character by character, so every
\* character of it is appended as a token of its own.
Extend(list, str) == list \o [i \in 1..Len(str) |-> <<str[i]>>]

\* candidates = phrase.split(" "); if len(candidates) < 2:
\*     candidates.extend(candidates[0])
Candidates(phrase) ==
    LET candidates == Split(phrase)
    IN  IF Len(candidates) < 2
        THEN Extend(candidates, candidates[1])
        ELSE candidates

---------------------------------------------------------------------------
\* NLTKCollocations.

\* The words of the reference corpus (nltk.corpus.brown.words()), here one of
\* three small corpora over the words "a" and "aa".
Corpora ==
    { << <<"a">>, <<"a", "a">>, <<"a", "a">> >>,
      << <<"a">>, <<"a">>, <<"a", "a">>, <<"a">> >>,
      << <<"a", "a">>, <<"a", "a">>, <<"a", "a">>, <<"a">> >> }

\* BigramCollocationFinder.from_words: the frequency of a word, of an adjacent
\* pair of words, and the keys of the pair distribution.
WordFd(words, w) == Cardinality({i \in 1..Len(words) : words[i] = w})

NgramFd(words, w1, w2) ==
    Cardinality({i \in 1..(Len(words) - 1) : words[i] = w1 /\ words[i + 1] = w2})

Ngrams(words) == {<<words[i], words[i + 1]>> : i \in 1..(Len(words) - 1)}

\* BigramAssocMeasures: NLTK computes floats from the contingency counts
\* (n_ii, (n_ix, n_xi), n_xx).  The measures are integer stand-ins computed from
\* the same counts: Pmi has the sign of log2(n_ii * n_xx / (n_ix * n_xi)),
\* ChiSq is the numerator of phi squared, LikelihoodRatio the pair count.
Pmi(n_ii, n_ix, n_xi, n_xx) == n_ii * n_xx - n_ix * n_xi

ChiSq(n_ii, n_ix, n_xi, n_xx) ==
    LET n_io == n_ix - n_ii
        n_oi == n_xi - n_ii
        n_oo == n_xx - n_ix - n_xi + n_ii
        d == n_ii * n_oo - n_io * n_oi
    IN  d * d

LikelihoodRatio(n_ii, n_ix, n_xi, n_xx) == n_ii

\* The measure of BigramAssocMeasures that a name stands for, applied.
ScoreNgram(measure, n_ii, n_ix, n_xi, n_xx) ==
    CASE measure = "likelihood_ratio" -> LikelihoodRatio(n_ii, n_ix, n_xi, n_xx)
      [] measure = "chi_sq" -> ChiSq(n_ii, n_ix, n_xi, n_xx)
      [] measure = "pmi" -> Pmi(n_ii, n_ix, n_xi, n_xx)

\* bigram_dict = defaultdict(list); for key, scores in score_ngrams(score):
\*     bigram_dict[key[0], key[1]].append(scores)
\* score_ngrams yields every pair of the finder exactly once.
\* The score function handed to build_bigram_score_dict is named by measure.
BuildBigramScoreDict(words, measure) ==
    [key \in Ngrams(words) |->
        <<ScoreNgram(measure, NgramFd(words, key[1], key[2]), WordFd(words, key[1]),
                     WordFd(words, key[2]), Len(words))>>]

\* defaultdict(list).__getitem__: a missing key is inserted with an empty list
\* and that list is the value; KeyError is never raised.
Getitem(dict, key) ==
    LET after == [k \in DOMAIN dict \cup {key} |->
                     IF k \in DOMAIN dict THEN dict[k] ELSE <<>>]
    IN  [raised |-> FALSE, dict |-> after, value |-> after[key]]

\* if score: response_list.append(score[0]) else: response_list.append(0)
FirstOrZero(score) == IF score # <<>> THEN score[1] ELSE 0

\* get_pmi_score with the two appends in the wrong order: the chi-square score
\* first.
PmiScoreChiFirst(pmi, chi, phrase) ==
    LET key == Candidates(phrase)
        g1 == Getitem(pmi, key)
        g2 == Getitem(chi, key)
    IN  [response_list |-> <<FirstOrZero(g2.value), FirstOrZero(g1.value)>>,
         pmi |-> g1.dict, chi |-> g2.dict]

\* The body of get_pmi_score on the tables pmi and chi: the returned list and
\* the tables it leaves behind.
PmiScore(pmi, chi, phrase) ==
    LET key == Candidates(phrase)
        g1 == Getitem(pmi, key)
        g2 == Getitem(chi, key)
    IN  IF g1.raised
        THEN [response_list |-> <<0, 0>>, pmi |-> g1.dict, chi |-> chi]
        ELSE IF g2.raised
        THEN [response_list |-> <<FirstOrZero(g1.value), 0, 0>>,
              pmi |-> g1.dict, chi |-> g2.dict]
        ELSE [response_list |-> <<FirstOrZero(g1.value), FirstOrZero(g2.value)>>,
              pmi |-> g1.dict, chi |-> g2.dict]

CollInit ==
    /\ bigram_finder \in Corpora
    /\ likelihood_ration_dict = BuildBigramScoreDict(bigram_finder, "likelihood_ratio")
    /\ chi_sq_dict = BuildBigramScoreDict(bigram_finder, "chi_sq")
    /\ pmi_dict = BuildBigramScoreDict(bigram_finder, "pmi")
    /\ coll_phrase = <<>>
    /\ coll_return = <<>>
    /\ coll_calls = 0

GetPmiScore(phrase) ==
    /\ coll_calls < MaxCalls
    /\ LET r == PmiScore(pmi_dict, chi_sq_dict, phrase)
       IN  /\ pmi_dict' = r.pmi
           /\ chi_sq_dict' = r.chi
           /\ coll_return' = <<r.response_list>>
    /\ coll_phrase' = <<phrase>>
    /\ coll_calls' = coll_calls + 1
    /\ UNCHANGED <<bigram_finder, likelihood_ration_dict>>

---------------------------------------------------------------------------
\* Word2Vec.

\* np.full((300,), -1): the length of the sentinel vector
Dim == 300

\* np.zeros((Dim,)) where np.full((Dim,), v) was meant.
FullOfZeros(v) == [i \in 1..Dim |-> 0]

\* np.full((Dim,), v)
Full(v) == [i \in 1..Dim |-> v]

\* A stored vector: x in the first place, y in the others.
Vec(x, y) == [i \in 1..Dim |-> IF i = 1 THEN x ELSE y]

\* What KeyedVectors.load_word2vec_format can give: a table from the words of
\* the vocabulary to their vectors.  The table without a word is falsy.
LoadWord2vecFormat ==
    { <<>>,
      [w \in {<<"a">>} |-> Vec(3, 1)],
      [w \in {<<"a">>, <<"a", "a">>} |-> IF w = <<"a">> THEN Vec(3, 1) ELSE Vec(0, 2)],
      [w \in {<<"a", "a">>, <<>>} |-> IF w = <<>> THEN Vec(1, 0) ELSE Vec(0, 2)] }

\* if not word_embeddings_model: return None.  The model is <<>> for None and
\* <<table>> for a loaded table.
LoadWord2vecModelFromPath(word_embeddings_model) ==
    IF DOMAIN word_embeddings_model = {} THEN <<>> ELSE <<word_embeddings_model>>

\* word in self.model.vocab
InVocab(kv, word) == word \in DOMAIN kv

\* The sum of u[i] * v[i] for i in lo..hi.
RECURSIVE DotRange(_, _, _, _)
DotRange(u, v, lo, hi) ==
    IF lo > hi THEN 0
    ELSE IF lo = hi THEN u[lo] * v[lo]
    ELSE LET mid == (lo + hi) \div 2
         IN  DotRange(u, v, lo, mid) + DotRange(u, v, mid + 1, hi)

Dot(u, v) == DotRange(u, v, 1, Len(u))

\* The largest r in lo..hi with r * r <= n, by bisection.
RECURSIVE ISqrtIn(_, _, _)
ISqrtIn(n, lo, hi) ==
    IF lo = hi THEN lo
    ELSE LET mid == (lo + hi + 1) \div 2
         IN  IF mid * mid <= n THEN ISqrtIn(n, mid, hi) ELSE ISqrtIn(n, lo, mid - 1)

\* The norm of u times the norm of v, rounded down; it lies between the squared
\* norms of the two.
NormProduct(u, v) ==
    LET uu == Dot(u, u)
        vv == Dot(v, v)
    IN  ISqrtIn(uu * vv, 0, IF uu > vv THEN uu ELSE vv)

\* KeyedVectors.similarity(w1, w2): the cosine of the two stored vectors, here
\* in hundredths rounded down; KeyError when a word is not in the vocabulary.
Similarity(kv, w1, w2) ==
    IF InVocab(kv, w1) /\ InVocab(kv, w2)
    THEN [raised |-> FALSE,
          value |-> (100 * Dot(kv[w1], kv[w2])) \div NormProduct(kv[w1], kv[w2])]
    ELSE [raised |-> TRUE, value |-> 0]

\* The bound of the token count off by one.
TooManyTokensOffByOne(candidates) == Len(candidates) > 3

\* if len(candidates) > 2: return -1
TooManyTokens(candidates) == Len(candidates) > 2

\* The body of get_similarity_score on the model m: the returned value, the
\* exception that leaves the call and the pairs model.similarity was called for.
SimilarityScore(m, noun_phrase) ==
    LET candidates == Candidates(noun_phrase)
    IN  IF TooManyTokens(candidates)
        THEN [return |-> <<-1>>, raised |-> "none", queries |-> <<>>]
        ELSE IF m = <<>>
        THEN [return |-> <<-1>>, raised |-> "none", queries |-> <<>>]
        ELSE IF Len(candidates) < 2
        \* candidates[1] is evaluated before the call; IndexError is not a KeyError
        THEN [return |-> <<>>, raised |-> "IndexError", queries |-> <<>>]
        ELSE LET r == Similarity(m[1], candidates[1], candidates[2])
                 q == << <<candidates[1], candidates[2]>> >>
             IN  IF r.raised
                 THEN [return |-> <<-1>>, raised |-> "none", queries |-> q]
                 ELSE [return |-> <<r.value>>, raised |-> "none", queries |-> q]

\* The body of get_word_embedding on the model m.
WordEmbedding(m, word) ==
    IF m = <<>>
    THEN Full(-1)
    ELSE IF InVocab(m[1], word) THEN m[1][word] ELSE Full(-1)

W2vInit ==
    /\ model \in {LoadWord2vecModelFromPath(kv) : kv \in LoadWord2vecFormat}
    /\ sim_phrase = <<>>
    /\ sim_return = <<>>
    /\ sim_raised = "none"
    /\ sim_queries = <<>>
    /\ emb_word = <<>>
    /\ emb_return = <<>>

GetSimilarityScore(noun_phrase) ==
    /\ LET r == SimilarityScore(model, noun_phrase)
       IN  /\ sim_return' = r.return
           /\ sim_raised' = r.raised
           /\ sim_queries' = r.queries
    /\ sim_phrase' = <<noun_phrase>>
    /\ emb_word' = <<>>
    /\ emb_return' = <<>>
    /\ UNCHANGED model

GetWordEmbedding(word) ==
    /\ emb_word' = <<word>>
    /\ emb_return' = <<WordEmbedding(model, word)>>
    /\ sim_phrase' = <<>>
    /\ sim_return' = <<>>
    /\ sim_raised' = "none"
    /\ sim_queries' = <<>>
    /\ UNCHANGED model

---------------------------------------------------------------------------
\* Candidate lists of the existence checkers.

Range(list) == {list[i] : i \in 1..Len(list)}

ListsOver(pool) == UNION {[1..n -> pool] : n \in 0..MaxCands}

---------------------------------------------------------------------------
\* Wikidata.

WdPool == {<<"a">>, <<"b">>, <<"a", " ", "b">>}

\* empty_result, the body of an answer without bindings
EmptyResult == "empty_bindings"

\* What requests.get can end with: an answer with a status code and a body, or
\* a transport error raised by the library.
Responses ==
    {[error |-> FALSE, status_code |-> st, content |-> c] :
        st \in {200, 404}, c \in {EmptyResult, "bindings"}}
    \cup {[error |-> TRUE, status_code |-> 0, content |-> ""]}

\* has_item without the test of the status code.
HasItemAnyStatus(r) == EmptyResult # r.content

\* has_item, on the answer r of its request:
\* if r.status_code == 200 and empty_result != r.content: return True
HasItem(r) == r.status_code = 200 /\ EmptyResult # r.content

\* A round that swallows the transport error and counts it as a miss.
RoundOutcomeCatching(r) ==
    IF r.error THEN "continue"
    ELSE IF r.status_code = 200 /\ EmptyResult # r.content THEN "return" ELSE "continue"

\* One round of "for candidate in set(candidates): if self.has_item(candidate):
\* return 1", on the outcome r of the request: the error leaves the call, a hit
\* returns 1, a miss goes on with the next candidate.
RoundOutcome(r) ==
    IF r.error THEN "raise"
    ELSE IF HasItem(r) THEN "return" ELSE "continue"

\* A loop that leaves the candidate it took among those to take.
RemainingAll(pending, candidate) == pending

\* The candidates left to the for loop after candidate was taken.
Remaining(pending, candidate) == pending \ {candidate}

WdInit ==
    /\ wd_pc = "idle"
    /\ wd_candidates = <<>>
    /\ wd_pending = {}
    /\ wd_remote \in [WdPool -> Responses]
    /\ wd_queries = <<>>
    /\ wd_return = <<>>

\* find_wikidata_existence(candidates) is entered: set(candidates) is built.
WdCall(candidates) ==
    /\ wd_pc = "idle"
    /\ wd_pc' = "loop"
    /\ wd_candidates' = candidates
    /\ wd_pending' = Range(candidates)
    /\ UNCHANGED <<wd_remote, wd_queries, wd_return>>

\* One round of the for loop; a set is iterated in an order the caller does
\* not choose.
WdRound ==
    /\ wd_pc = "loop"
    /\ \E candidate \in wd_pending :
          LET r == wd_remote[candidate]
              outcome == RoundOutcome(r)
          IN  /\ wd_queries' = Append(wd_queries, candidate)
              /\ wd_pending' = Remaining(wd_pending, candidate)
              /\ wd_pc' = CASE outcome = "raise" -> "raised"
                            [] outcome = "return" -> "returned"
                            [] OTHER -> "loop"
              /\ wd_return' = IF outcome = "return" THEN <<1>> ELSE wd_return
    /\ UNCHANGED <<wd_candidates, wd_remote>>

\* The for loop is exhausted: return 0.
WdExhausted ==
    /\ wd_pc = "loop"
    /\ wd_pending = {}
    /\ wd_pc' = "returned"
    /\ wd_return' = <<0>>
    /\ UNCHANGED <<wd_candidates, wd_pending, wd_remote, wd_queries>>

---------------------------------------------------------------------------
\* Wordnet.

WnPool == {<<"b">>, <<"a", " ", "b">>, <<"a", " ", " ", "b">>}

\* candidate.replace(" ", "_", 1): only the first space is replaced.
ReplaceFirst(candidate) ==
    [i \in 1..Len(candidate) |->
        IF candidate[i] = " " /\ \A j \in 1..(i - 1) : candidate[j] # " "
        THEN "_" ELSE candidate[i]]

\* candidate.replace(" ", "_")
Replace(candidate) ==
    [i \in 1..Len(candidate) |-> IF candidate[i] = " " THEN "_" ELSE candidate[i]]

\* The names the lexical database may hold: the candidates as given and their
\* underscore forms.
WnNames == WnPool \cup {Replace(c) : c \in WnPool}

\* self.wordnet.synsets(name) is a non-empty list.
Synsets(db, name) == name \in db

\* After a candidate without a synset the for loop takes the next one.
NextIndex(i) == i + 1

WnInit ==
    /\ wn_pc = "idle"
    /\ wn_candidates = <<>>
    /\ wn_next = 1
    /\ wn_db \in SUBSET WnNames
    /\ wn_queries = <<>>
    /\ wn_return = <<>>

\* find_wordnet_existence(candidates) is entered.
WnCall(candidates) ==
    /\ wn_pc = "idle"
    /\ wn_pc' = "loop"
    /\ wn_candidates' = candidates
    /\ UNCHANGED <<wn_next, wn_db, wn_queries, wn_return>>

\* One round of the for loop, in list order.
WnRound ==
    /\ wn_pc = "loop"
    /\ wn_next <= Len(wn_candidates)
    /\ LET candidate == Replace(wn_candidates[wn_next])
       IN  /\ wn_queries' = Append(wn_queries, candidate)
           /\ IF Synsets(wn_db, candidate)
              THEN /\ wn_pc' = "returned"
                   /\ wn_return' = <<1>>
                   /\ UNCHANGED wn_next
              ELSE /\ wn_next' = NextIndex(wn_next)
                   /\ UNCHANGED <<wn_pc, wn_return>>
    /\ UNCHANGED <<wn_candidates, wn_db>>

\* The for loop is exhausted: return 0.
WnExhausted ==
    /\ wn_pc = "loop"
    /\ wn_next > Len(wn_candidates)
    /\ wn_pc' = "returned"
    /\ wn_return' = <<0>>
    /\ UNCHANGED <<wn_candidates, wn_next, wn_db, wn_queries>>

---------------------------------------------------------------------------
\* Specifications: one per adapter.  The adapters share no state; in the
\* specification of one adapter the others are not constructed.

CollNone ==
    /\ bigram_finder = <<>>
    /\ likelihood_ration_dict = <<>>
    /\ chi_sq_dict = <<>>
    /\ pmi_dict = <<>>
    /\ coll_phrase = <<>>
    /\ coll_return = <<>>
    /\ coll_calls = 0

W2vNone ==
    /\ model = <<>>
    /\ sim_phrase = <<>>
    /\ sim_return = <<>>
    /\ sim_raised = "none"
    /\ sim_queries = <<>>
    /\ emb_word = <<>>
    /\ emb_return = <<>>

WdNone ==
    /\ wd_pc = "idle"
    /\ wd_candidates = <<>>
    /\ wd_pending = {}
    /\ wd_remote = <<>>
    /\ wd_queries = <<>>
    /\ wd_return = <<>>

WnNone ==
    /\ wn_pc = "idle"
    /\ wn_candidates = <<>>
    /\ wn_next = 1
    /\ wn_db = {}
    /\ wn_queries = <<>>
    /\ wn_return = <<>>

InitColl == CollInit /\ W2vNone /\ WdNone /\ WnNone

NextColl ==
    /\ \E phrase \in Phrases : GetPmiScore(phrase)
    /\ UNCHANGED <<w2vVars, wdVars, wnVars>>

SpecColl == InitColl /\ [][NextColl]_vars

InitW2v == CollNone /\ W2vInit /\ WdNone /\ WnNone

NextW2v ==
    /\ \/ \E noun_phrase \in Phrases : GetSimilarityScore(noun_phrase)
       \/ \E word \in Phrases : GetWordEmbedding(word)
    /\ UNCHANGED <<collVars, wdVars, wnVars>>

SpecW2v == InitW2v /\ [][NextW2v]_vars

InitWd == CollNone /\ W2vNone /\ WdInit /\ WnNone

NextWd ==
    /\ \/ \E candidates \in ListsOver(WdPool) : WdCall(candidates)
       \/ WdRound
       \/ WdExhausted
    /\ UNCHANGED <<collVars, w2vVars, wnVars>>

SpecWd == InitWd /\ [][NextWd]_vars

InitWn == CollNone /\ W2vNone /\ WdNone /\ WnInit

NextWn ==
    /\ \/ \E candidates \in ListsOver(WnPool) : WnCall(candidates)
       \/ WnRound
       \/ WnExhausted
    /\ UNCHANGED <<collVars, w2vVars, wdVars>>

SpecWn == InitWn /\ [][NextWn]_vars

---------------------------------------------------------------------------
\* Properties of NLTKCollocations (properties of SpecColl).

\* A single-word phrase: not empty and without a space.
SingleWord(phrase) == Len(phrase) > 0 /\ \A i \in 1..Len(phrase) : phrase[i] # " "

\* The number of spaces of a phrase; phrase.split(" ") has one token more.
NumSpaces(phrase) == Cardinality({i \in 1..Len(phrase) : phrase[i] = " "})

\* The tables as the constructor built them from the corpus of the finder.
BuiltPmi == BuildBigramScoreDict(bigram_finder, "pmi")
BuiltChiSq == BuildBigramScoreDict(bigram_finder, "chi_sq")
BuiltLikelihoodRatio == BuildBigramScoreDict(bigram_finder, "likelihood_ratio")

\* C1: get_pmi_score(w) of a single-word phrase w has returned what
\* get_pmi_score(w + " " + w) returns on the same tables.
C1_SingleWordAsSelfPair ==
    (coll_phrase # <<>> /\ SingleWord(coll_phrase[1])) =>
        LET w == coll_phrase[1]
        IN  coll_return[1] =
                PmiScore(pmi_dict, chi_sq_dict, w \o <<" ">> \o w).response_list

\* C2: after any sequence of get_pmi_score calls the three tables have the keys
\* and the values the constructor gave them.
C2_TablesImmutable ==
    /\ pmi_dict = BuiltPmi
    /\ chi_sq_dict = BuiltChiSq
    /\ likelihood_ration_dict = BuiltLikelihoodRatio

---------------------------------------------------------------------------
\* Properties of Word2Vec (properties of SpecW2v).

\* C5: a phrase with two spaces or more (more than two tokens) gets exactly -1
\* and model.similarity is not called.
C5_MoreThanTwoTokens ==
    (sim_phrase # <<>> /\ NumSpaces(sim_phrase[1]) >= 2) =>
        /\ sim_return = <<-1>>
        /\ sim_raised = "none"
        /\ sim_queries = <<>>

\* C5 witness: "a  a", two in-vocabulary words around a double space, got -1
\* from a loaded model.
C5_Witness ==
    /\ sim_phrase = << <<"a", " ", " ", "a">> >>
    /\ model # <<>>
    /\ <<"a">> \in DOMAIN model[1]
    /\ sim_return = <<-1>>

\* C6: get_word_embedding returns 300 entries, all -1, when the model is not
\* loaded or the word is not in the vocabulary, and the stored vector otherwise.
C6_WordEmbedding ==
    emb_word # <<>> =>
        /\ Len(emb_return) = 1
        /\ IF model = <<>> \/ emb_word[1] \notin DOMAIN model[1]
           THEN /\ DOMAIN emb_return[1] = 1..300
                /\ \A i \in 1..300 : emb_return[1][i] = -1
           ELSE emb_return[1] = model[1][emb_word[1]]

\* C6 witness: a word outside the vocabulary of a loaded model got the
\* sentinel vector.
C6_Witness ==
    /\ emb_word # <<>>
    /\ model # <<>>
    /\ emb_word[1] \notin DOMAIN model[1]
    /\ emb_return[1][300] = -1

\* C10: get_similarity_score returns a number for every string and raises
\* nothing; for one or two tokens the number is the cosine of the two tokens
\* (the token taken twice when it is alone) when the model is loaded and holds
\* both, and -1 otherwise.
C10_SimilarityAlwaysReturns ==
    sim_phrase # <<>> =>
        /\ sim_raised = "none"
        /\ Len(sim_return) = 1
        /\ NumSpaces(sim_phrase[1]) <= 1 =>
              LET tokens == Split(sim_phrase[1])
                  w1 == tokens[1]
                  w2 == IF Len(tokens) = 1 THEN tokens[1] ELSE tokens[2]
              IN  sim_return =
                      IF model # <<>> /\ w1 \in DOMAIN model[1] /\ w2 \in DOMAIN model[1]
                      THEN <<Similarity(model[1], w1, w2).value>>
                      ELSE <<-1>>

---------------------------------------------------------------------------
\* Properties of Wikidata (properties of SpecWd).

\* An answer that counts as a positive result.
Positive(r) == ~r.error /\ r.status_code = 200 /\ r.content # EmptyResult

NoRepeat(list) ==
    \A i, j \in 1..Len(list) : list[i] = list[j] => i = j

\* C3: a call that returned has returned 1 when some candidate's answer has
\* status 200 and a body other than the empty-bindings payload, and 0 when
\* none has, whatever the order of iteration was.
C3_ExistenceResult ==
    wd_pc = "returned" =>
        wd_return =
            IF \E c \in Range(wd_candidates) : Positive(wd_remote[c])
            THEN <<1>> ELSE <<0>>

\* C3 witness: 1 was returned after a miss with status 200 and a hit.
C3_Witness ==
    /\ wd_pc = "returned"
    /\ wd_return = <<1>>
    /\ Len(wd_queries) = 2
    /\ wd_remote[wd_queries[1]].status_code = 200

\* C8: a query that ended with a transport error is the last query of the
\* call, the call has ended with the error and has returned nothing.
C8_TransportErrorPropagates ==
    \A i \in 1..Len(wd_queries) :
        wd_remote[wd_queries[i]].error =>
            /\ i = Len(wd_queries)
            /\ wd_pc = "raised"
            /\ wd_return = <<>>

\* C8 witness: the call ended with the error while a candidate was still to
\* be queried.
C8_Witness ==
    /\ wd_pc = "raised"
    /\ wd_pending # {}
    /\ wd_remote[wd_queries[Len(wd_queries)]].error

\* C9: no candidate is queried twice, only candidates are queried, only the
\* last query can be positive, and a call that returned 0 has queried every
\* distinct candidate exactly once.
C9_OneQueryPerCandidate ==
    /\ NoRepeat(wd_queries)
    /\ Range(wd_queries) \subseteq Range(wd_candidates)
    /\ Len(wd_queries) <= Cardinality(Range(wd_candidates))
    /\ \A i \in 1..(Len(wd_queries) - 1) : ~Positive(wd_remote[wd_queries[i]])
    /\ (wd_pc = "returned" /\ wd_return = <<0>>) =>
          /\ Range(wd_queries) = Range(wd_candidates)
          /\ Len(wd_queries) = Cardinality(Range(wd_candidates))

\* C9 witness: a list holding one candidate twice was answered 0 after one
\* query.
C9_Witness ==
    /\ wd_pc = "returned"
    /\ wd_return = <<0>>
    /\ Len(wd_candidates) = 2
    /\ Len(wd_queries) = 1

---------------------------------------------------------------------------
\* Properties of Wordnet (properties of SpecWn).

\* C7: the i-th query is the i-th candidate with every space turned into an
\* underscore, no query follows one that found a synset, and a call that
\* returned has returned 1 when some candidate's underscore form has a synset
\* and 0, after a query for every candidate, when none has.
C7_UnderscoreFormInListOrder ==
    /\ Len(wn_queries) <= Len(wn_candidates)
    /\ \A i \in 1..Len(wn_queries) :
          /\ Len(wn_queries[i]) = Len(wn_candidates[i])
          /\ \A j \in 1..Len(wn_queries[i]) :
                wn_queries[i][j] =
                    IF wn_candidates[i][j] = " " THEN "_" ELSE wn_candidates[i][j]
    /\ \A i \in 1..(Len(wn_queries) - 1) : wn_queries[i] \notin wn_db
    /\ wn_pc = "returned" =>
          IF \E i \in 1..Len(wn_queries) : wn_queries[i] \in wn_db
          THEN wn_return = <<1>>
          ELSE wn_return = <<0>> /\ Len(wn_queries) = Len(wn_candidates)

\* C7 witness: 1 was returned at the second candidate, "a  b", queried as
\* "a__b", although the database also holds the name with the spaces of the
\* first.
C7_Witness ==
    /\ wn_pc = "returned"
    /\ wn_return = <<1>>
    /\ Len(wn_queries) = 2
    /\ wn_queries[2] = <<"a", "_", "_", "b">>
    /\ wn_candidates[1] \in wn_db

=============================================================================
